---- MODULE Spec2Model ----
(***************************************************************************)
(* A model of the crochet parser-combinator engine (src/src/lib.rs) and of *)
(* the example grammar built on it (src/src/json.rs).                      *)
(*                                                                         *)
(* An input buffer is a sequence of one-character strings; a position (a   *)
(* Rust `&'a str` that is a suffix of the buffer) is the offset of the     *)
(* suffix in the buffer, 0..Len(buffer).  Every character of the model is  *)
(* one byte wide, so len_utf8() is 1.                                      *)
(*                                                                         *)
(* A ParserResult is a record [typ, source, val, err]; a parser is named   *)
(* by an identifier and applied by parse(p, s, i).  The operators that     *)
(* invoke a parser return, beside the result, the list of invocations      *)
(* they made (parser, position), which is what "invoked zero times" and    *)
(* "invoked once, from p" are stated about.                                *)
(***************************************************************************)
EXTENDS Integers, Sequences, FiniteSets, TLC

\* ------------------------------------------------------------ bounds
\* Longest input buffer.
MaxLen == 4
\* Largest number in a repetition range.
MaxBound == 3
\* Parser invocations after which a call is no longer followed: more than
\* any returning call makes on a buffer of MaxLen characters (see Budget).
MaxCalls == 2 * MaxLen + 4

\* ------------------------------------------------------------ characters
Quote == "\""
Backslash == "\\"

is_ascii_digit(c) == c \in {"1", "2"}
not_quote(c) == c # Quote

\* A character predicate handed to matching_char or take_while, by name.
filter_call(filter, c) ==
    CASE filter = "is_ascii_digit" -> is_ascii_digit(c)
      [] filter = "not_quote" -> not_quote(c)

CombAlphabet == {"1", Backslash}
IterAlphabet == {"1", Backslash, "x"}
ListAlphabet == {"1", "2", ",", "x"}
RepAlphabet == {"1", "2", "x"}
StrAlphabet == {Quote, Backslash, "n", "a"}
NumAlphabet == {"-", "1", ".", "x"}

Inputs(alphabet) == UNION {[1..n -> alphabet] : n \in 0..MaxLen}

\* ------------------------------------------------------------ results
NoVal == <<>>
NoErr == <<>>
None == [typ |-> "None"]
NoRes == [typ |-> "NoRes"]

ExpectedLiteral(text) == <<"ExpectedLiteral", text>>
ExpectedToken(name) == <<"ExpectedToken", name>>
UnexpectedEndOfFile == <<"UnexpectedEndOfFile">>

from_val(source, val) ==
    [typ |-> "Ok", source |-> source, val |-> val, err |-> NoErr]

from_err(source, e) ==
    [typ |-> "Err", source |-> source, val |-> NoVal, err |-> e]

incomplete(source) ==
    [typ |-> "Incomplete", source |-> source, val |-> NoVal, err |-> NoErr]

is_ok(r) == r.typ = "Ok"
is_err(r) == r.typ = "Err"
is_incomplete(r) == r.typ = "Incomplete"

\* Option<T>
Some(v) == <<"Some", v>>
NoneVal == <<"None">>
ok(r) == IF r.typ = "Ok" THEN Some(r.val) ELSE NoneVal

\* Two results are the same result: tag, position, and the payload of the tag.
SameResult(a, b) ==
    /\ a.typ = b.typ
    /\ a.source = b.source
    /\ (a.typ = "Ok" => a.val = b.val)
    /\ (a.typ = "Err" => a.err = b.err)

\* The `?` operator: Try::branch and FromResidual::from_residual.  Every
\* `?` of lib.rs and json.rs converts between results of one error type, so
\* e.into() is From<E> for E, which returns e.
branch(self) ==
    CASE self.typ = "Ok" ->
            [cf |-> "Continue", source |-> self.source, val |-> self.val]
      [] self.typ = "Err" ->
            [cf |-> "Break", residual |-> from_err(self.source, self.err)]
      [] self.typ = "Incomplete" ->
            [cf |-> "Break", residual |-> incomplete(self.source)]

from_residual(residual) ==
    [typ    |-> residual.typ,
     source |-> residual.source,
     val    |-> NoVal,
     err    |-> IF residual.typ = "Err" THEN residual.err ELSE NoErr]

\* map(f) on a result that is not Ok (lib.rs:277 map(|_| unreachable!())).
map_fail(r) == [typ |-> r.typ, source |-> r.source, val |-> NoVal, err |-> r.err]

\* Fault variant: the failure position is kept instead of start.
optional_mut_failpos(self, start) ==
    from_val(self.source, ok(self))

optional(self, start) ==
    LET position == IF self.typ = "Ok" THEN self.source ELSE start
    IN  from_val(position, ok(self))

\* original[..original.len() - self.source.len()], for `original` the suffix
\* of s at offset `original`: the text between the two offsets.
parsed_slice(self, s, original) == SubSeq(s, original + 1, self.source)

\* ------------------------------------------------------------ primitives
StartsWith(s, i, lit) ==
    /\ i + Len(lit) <= Len(s)
    /\ \A k \in 1..Len(lit) : s[i + k] = lit[k]

\* Fault variant: an exhausted input is reported as UnexpectedEndOfFile.
literal_mut_eof(lit, s, i) ==
    IF StartsWith(s, i, lit)
    THEN from_val(i + Len(lit), SubSeq(s, i + 1, i + Len(lit)))
    ELSE IF i = Len(s) THEN from_err(i, UnexpectedEndOfFile)
    ELSE from_err(i, ExpectedLiteral(lit))

literal(lit, s, i) ==
    IF StartsWith(s, i, lit)
    THEN from_val(i + Len(lit), SubSeq(s, i + 1, i + Len(lit)))
    ELSE from_err(i, ExpectedLiteral(lit))

matching_char(token_name, filter, s, i) ==
    IF i < Len(s) /\ filter_call(filter, s[i + 1])
    THEN from_val(i + 1, s[i + 1])
    ELSE from_err(i, ExpectedToken(token_name))

\* The length of the longest run of characters satisfying filter from offset i.
RECURSIVE RunLen(_, _, _)
RunLen(filter, s, i) ==
    IF i < Len(s) /\ filter_call(filter, s[i + 1]) THEN 1 + RunLen(filter, s, i + 1) ELSE 0

take_while(token_name, filter, s, i) ==
    LET len == RunLen(filter, s, i)
    IN  IF len = 0
        THEN from_err(i, ExpectedToken(token_name))
        ELSE from_val(i + len, SubSeq(s, i + 1, i + len))

peek(s, i) ==
    IF i < Len(s) THEN from_val(i, s[i + 1]) ELSE from_err(i, UnexpectedEndOfFile)

advance(s, i) ==
    IF i < Len(s) THEN from_val(i + 1, s[i + 1]) ELSE from_err(i, UnexpectedEndOfFile)

\* A caller's closure that asks for more input: one digit, Incomplete at the
\* end of the buffer, Err on any other character.
stream_digit(s, i) ==
    IF i = Len(s) THEN incomplete(i)
    ELSE IF is_ascii_digit(s[i + 1]) THEN from_val(i + 1, s[i + 1])
    ELSE from_err(i, ExpectedToken("digit"))

\* An invocation of parser p at offset i.
Invoke(p, i) == [parser |-> p, at |-> i]

RECURSIVE parse(_, _, _)

\* Fault variant: the alternative is run in any case, and from the failure
\* position of self.
or_mut_eager(self, from, p, s) ==
    IF is_ok(self)
    THEN [res |-> self, calls |-> <<Invoke(p, from)>>]
    ELSE [res |-> parse(p, s, self.source), calls |-> <<Invoke(p, self.source)>>]

or(self, from, p, s) ==
    IF is_ok(self)
    THEN [res |-> self, calls |-> <<>>]
    ELSE [res |-> parse(p, s, from), calls |-> <<Invoke(p, from)>>]

\* Fault variant: no short circuit, p is run whatever self is.
and_mut_keep_going(self, p, s) ==
    LET r2 == parse(p, s, self.source)
    IN  IF is_ok(self) /\ is_ok(r2)
        THEN [res |-> from_val(r2.source, <<self.val, r2.val>>),
              calls |-> <<Invoke(p, self.source)>>]
        ELSE IF is_ok(self)
        THEN [res |-> map_fail(r2), calls |-> <<Invoke(p, self.source)>>]
        ELSE [res |-> map_fail(self), calls |-> <<Invoke(p, self.source)>>]

and(self, p, s) ==
    LET b1 == branch(self)
    IN  IF b1.cf = "Break"
        THEN [res |-> from_residual(b1.residual), calls |-> <<>>]
        ELSE LET b2 == branch(parse(p, s, b1.source))
                 inv == <<Invoke(p, b1.source)>>
             IN  IF b2.cf = "Break"
                 THEN [res |-> from_residual(b2.residual), calls |-> inv]
                 ELSE [res |-> from_val(b2.source, <<b1.val, b2.val>>),
                       calls |-> inv]

\* json.rs parse_esc: a backslash, then any character.
parse_esc(s, i) ==
    LET b1 == branch(literal(<<Backslash>>, s, i))
    IN  IF b1.cf = "Break" THEN from_residual(b1.residual)
        ELSE LET b2 == branch(advance(s, b1.source))
             IN  IF b2.cf = "Break" THEN from_residual(b2.residual)
                 ELSE from_val(b2.source,
                               CASE b2.val = "n" -> "\n"
                                 [] b2.val = "t" -> "\t"
                                 [] OTHER -> b2.val)

\* The parsers a call is given: the closures of lib.rs and json.rs.
Parsers ==
    {"digit", "comma", "peek", "advance", "digits", "stream_digit",
     "opt_digit", "esc", "plain_char", "str_char", "opt_frac"}

parse(p, s, i) ==
    CASE p = "digit"  -> matching_char("digit", "is_ascii_digit", s, i)
      [] p = "comma"  -> literal(<<",">>, s, i)
      [] p = "peek"   -> peek(s, i)
      [] p = "advance" -> advance(s, i)
      [] p = "digits" -> take_while("digit", "is_ascii_digit", s, i)
      [] p = "stream_digit" -> stream_digit(s, i)
      [] p = "opt_digit" ->
            optional(matching_char("digit", "is_ascii_digit", s, i), i)
      [] p = "esc"    -> parse_esc(s, i)
      [] p = "plain_char" -> matching_char("char", "not_quote", s, i)
      [] p = "str_char" -> or(parse_esc(s, i), i, "plain_char", s).res
      [] p = "opt_frac" ->
            optional(and(literal(<<".">>, s, i), "digits", s).res, i)

\* ------------------------------------------------------------ json.rs
\* str::parse::<f64> of a slice [-]digits[.digits]: the decimal number
\* (-1)^neg * mantissa / 10^scale.  The rounding to the nearest f64 is not
\* represented.
digit_value(c) == CASE c = "1" -> 1 [] c = "2" -> 2

RECURSIVE decimal(_)
decimal(d) ==
    IF d = <<>> THEN 0
    ELSE 10 * decimal(SubSeq(d, 1, Len(d) - 1)) + digit_value(d[Len(d)])

parse_f64(text) ==
    LET neg  == Len(text) > 0 /\ text[1] = "-"
        body == IF neg THEN Tail(text) ELSE text
        dots == {k \in 1..Len(body) : body[k] = "."}
    IN  [neg      |-> neg,
         mantissa |-> decimal(SelectSeq(body, is_ascii_digit)),
         scale    |-> IF dots = {} THEN 0 ELSE Len(body) - (CHOOSE k \in dots : TRUE)]

\* map_slice(original, |s| s.parse().unwrap()) as parse_num uses it.
map_slice(self, s, original) ==
    IF self.typ = "Ok"
    THEN from_val(self.source, parse_f64(parsed_slice(self, s, original)))
    ELSE map_fail(self)

parse_num(s, input) ==
    LET sign  == optional(literal(<<"-">>, s, input), input)
        whole == and(sign, "digits", s).res
        all   == and(whole, "opt_frac", s).res
    IN  map_slice(all, s, input)

\* ------------------------------------------------------------ repetition
Unbounded == [kind |-> "Unbounded", n |-> 0]
Included(k) == [kind |-> "Included", n |-> k]
Excluded(k) == [kind |-> "Excluded", n |-> k]

\* The ranges a caller passes as `bounds`: a.., a..b, a..=b, ..b, ..=b, ..
Ranges ==
    [start : {Unbounded} \cup {Included(k) : k \in 0..MaxBound},
     end   : {Unbounded} \cup {Included(k) : k \in 0..MaxBound}
                         \cup {Excluded(k) : k \in 0..MaxBound}]

is_under(num, bound) ==
    CASE bound.kind = "Included" -> num <= bound.n
      [] bound.kind = "Excluded" -> num < bound.n
      [] bound.kind = "Unbounded" -> TRUE

\* RangeBounds::contains
contains(range, item) ==
    /\ CASE range.start.kind = "Included" -> range.start.n <= item
         [] range.start.kind = "Excluded" -> range.start.n < item
         [] range.start.kind = "Unbounded" -> TRUE
    /\ CASE range.end.kind = "Included" -> item <= range.end.n
         [] range.end.kind = "Excluded" -> item < range.end.n
         [] range.end.kind = "Unbounded" -> TRUE

\* Container::add of the ordered accumulator (Vec).
add(container, v) == Append(container, v)

\* One pull of the iteration adapter: one parse at the cursor.
\* Fault variant: a failing pull moves the cursor to the failure position.
ParsIter_next_mut_advance(p, s, source) ==
    LET r == parse(p, s, source)
    IN  IF is_ok(r)
        THEN [yield |-> Some(r.val), source |-> r.source, err |-> FALSE]
        ELSE [yield |-> NoneVal, source |-> r.source, err |-> TRUE]

ParsIter_next(p, s, source) ==
    LET r == parse(p, s, source)
    IN  IF is_ok(r)
        THEN [yield |-> Some(r.val), source |-> r.source, err |-> FALSE]
        ELSE [yield |-> NoneVal, source |-> source, err |-> TRUE]

\* ------------------------------------------------------------ state
VARIABLES
    pc,            \* where the current call is
    op,            \* the operation called
    src,           \* the input buffer
    self,          \* and / or / optional: the result they are called on
    start,         \* or / optional: `from` / `start`; iter: the cursor at creation
    parser,        \* the parser argument
    delim_parser,  \* delimited_list: the delimiter parser
    bounds,        \* parse_repeating: the range
    input,         \* the current position (`input`, `slice`, the iterator's cursor)
    elems,         \* the values accumulated or yielded so far
    delims,        \* delimited_list: the delimiters accumulated so far
    err,           \* parse_repeating: `err`
    iter_err,      \* ParsIter.err
    calls,         \* the parser invocations of the call, in order
    res            \* the result returned

vars == <<pc, op, src, self, start, parser, delim_parser, bounds, input,
          elems, delims, err, iter_err, calls, res>>

Init ==
    /\ pc = "idle"
    /\ op = "none"
    /\ src = <<>>
    /\ self = NoRes
    /\ start = 0
    /\ parser = "none"
    /\ delim_parser = "none"
    /\ bounds = [start |-> Unbounded, end |-> Unbounded]
    /\ input = 0
    /\ elems = <<>>
    /\ delims = <<>>
    /\ err = None
    /\ iter_err = FALSE
    /\ calls = <<>>
    /\ res = NoRes

\* The results and parsers the result combinators are called with.
ResultsOn(s) ==
    {from_val(i, "v") : i \in 0..Len(s)}
        \cup {from_err(i, ExpectedToken("self")) : i \in 0..Len(s)}
        \cup {incomplete(i) : i \in 0..Len(s)}

CombParsers == {"digit", "peek", "stream_digit", "esc"}
RepParsers == {"digit", "stream_digit", "peek", "opt_digit"}
ElemParsers == {"digit", "stream_digit", "peek"}
DelimParsers == {"comma", "stream_digit", "peek"}
IterParsers == {"digit", "stream_digit", "esc", "peek"}

\* A call of a straight-line operation: everything is set in one step.
Returned(o, s, r, st, p, rs, cs) ==
    /\ pc' = "done"
    /\ op' = o
    /\ src' = s
    /\ self' = r
    /\ start' = st
    /\ parser' = p
    /\ res' = rs
    /\ calls' = cs
    /\ UNCHANGED <<delim_parser, bounds, input, elems, delims, err, iter_err>>

CallAnd ==
    /\ pc = "idle"
    /\ \E s \in Inputs(CombAlphabet) : \E r \in ResultsOn(s) : \E p \in CombParsers :
          LET o == and(r, p, s)
          IN  Returned("and", s, r, 0, p, o.res, o.calls)

CallOr ==
    /\ pc = "idle"
    /\ \E s \in Inputs(CombAlphabet) : \E r \in ResultsOn(s) :
       \E from \in 0..Len(s) : \E p \in CombParsers :
          LET o == or(r, from, p, s)
          IN  Returned("or", s, r, from, p, o.res, o.calls)

CallOptional ==
    /\ pc = "idle"
    /\ \E s \in Inputs(CombAlphabet) : \E r \in ResultsOn(s) : \E st \in 0..Len(s) :
          Returned("optional", s, r, st, "none", optional(r, st), <<>>)

CallParseNum ==
    /\ pc = "idle"
    /\ \E s \in Inputs(NumAlphabet) :
          Returned("parse_num", s, NoRes, 0, "none", parse_num(s, 0), <<>>)

\* ---- Parser::parse_repeating (lib.rs:258-281)
CallParseRepeating ==
    /\ pc = "idle"
    /\ \E s \in Inputs(RepAlphabet) : \E p \in RepParsers : \E b \in Ranges :
          /\ pc' = "rep_loop"
          /\ op' = "parse_repeating"
          /\ src' = s
          /\ parser' = p
          /\ bounds' = b
          /\ input' = 0
          /\ elems' = <<>>
          /\ err' = None
          /\ UNCHANGED <<self, start, delim_parser, delims, iter_err, calls, res>>

\* The code after the loop (lib.rs:275-280), for the loop's final state.
RepeatExit(in, es, e) ==
    IF ~contains(bounds, Len(es))
    THEN IF e = None
         THEN /\ pc' = "panic"
              /\ res' = NoRes
         ELSE /\ pc' = "done"
              /\ res' = map_fail(e)
    ELSE /\ pc' = "done"
         /\ res' = from_val(in, es)

\* One evaluation of the loop condition and, when it holds, of the loop body;
\* the iteration that leaves the loop runs the code after it.
RepeatIter ==
    /\ pc = "rep_loop"
    /\ Len(calls) < MaxCalls
    /\ IF is_under(Len(elems), bounds.end)
       THEN LET parsed == parse(parser, src, input)
            IN  /\ calls' = Append(calls, Invoke(parser, input))
                /\ IF parsed.typ = "Ok"
                   THEN /\ elems' = Append(elems, parsed.val)
                        /\ input' = parsed.source
                        /\ UNCHANGED <<pc, err, res>>
                   ELSE /\ err' = parsed
                        /\ UNCHANGED <<elems, input>>
                        /\ RepeatExit(input, elems, parsed)
       ELSE /\ UNCHANGED <<calls, elems, input, err>>
            /\ RepeatExit(input, elems, err)
    /\ UNCHANGED <<op, src, self, start, parser, delim_parser, bounds, delims, iter_err>>

\* ---- repeating (lib.rs:385-402)
CallRepeating ==
    /\ pc = "idle"
    /\ \E s \in Inputs(RepAlphabet) : \E p \in RepParsers :
          LET b == branch(parse(p, s, 0))
          IN  /\ op' = "repeating"
              /\ src' = s
              /\ parser' = p
              /\ calls' = <<Invoke(p, 0)>>
              /\ IF b.cf = "Break"
                 THEN /\ pc' = "done"
                      /\ res' = from_residual(b.residual)
                      /\ UNCHANGED <<input, elems>>
                 ELSE /\ pc' = "rpt_loop"
                      /\ input' = b.source
                      /\ elems' = add(<<>>, b.val)
                      /\ UNCHANGED res
              /\ UNCHANGED <<self, start, delim_parser, bounds, delims, err, iter_err>>

RepeatingIter ==
    /\ pc = "rpt_loop"
    /\ Len(calls) < MaxCalls
    /\ LET r == parse(parser, src, input)
           new_slice == r.source
       IN  /\ calls' = Append(calls, Invoke(parser, input))
           /\ IF ok(r) = NoneVal
              THEN /\ pc' = "done"
                   /\ res' = from_val(input, elems)
                   /\ UNCHANGED <<input, elems>>
              ELSE /\ elems' = Append(elems, r.val)
                   /\ input' = new_slice
                   /\ UNCHANGED <<pc, res>>
    /\ UNCHANGED <<op, src, self, start, parser, delim_parser, bounds, delims, err, iter_err>>

\* ---- delimited_list (lib.rs:315-346)
CallDelimitedList ==
    /\ pc = "idle"
    /\ \E s \in Inputs(ListAlphabet) : \E ep \in ElemParsers : \E dp \in DelimParsers :
          LET b == branch(parse(ep, s, 0))
          IN  /\ op' = "delimited_list"
              /\ src' = s
              /\ parser' = ep
              /\ delim_parser' = dp
              /\ calls' = <<Invoke(ep, 0)>>
              /\ IF b.cf = "Break"
                 THEN /\ pc' = "done"
                      /\ res' = from_residual(b.residual)
                      /\ UNCHANGED <<input, elems>>
                 ELSE /\ pc' = "dl_loop"
                      /\ input' = b.source
                      /\ elems' = add(<<>>, b.val)
                      /\ UNCHANGED res
              /\ UNCHANGED <<self, start, bounds, delims, err, iter_err>>

\* One iteration of the loop (lib.rs:333-343) from position `in` with the
\* accumulators es and ds; the iteration that leaves the loop runs the code
\* after it (lib.rs:345) or returns the element's failure (the `?` of 340).
\* Fault variant: a new element is put in front of the accumulated ones.
delimited_list_iter_mut_order(ep, dp, s, in, es, ds) ==
    LET delim == parse(dp, s, in)
    IN  IF ~is_ok(delim)
        THEN [pc |-> "done", res |-> from_val(in, <<es, ds>>), input |-> in,
              elems |-> es, delims |-> ds, calls |-> <<Invoke(dp, in)>>]
        ELSE LET b == branch(parse(ep, s, delim.source))
                 inv == <<Invoke(dp, in), Invoke(ep, delim.source)>>
             IN  IF b.cf = "Break"
                 THEN [pc |-> "done", res |-> from_residual(b.residual),
                       input |-> delim.source, elems |-> es,
                       delims |-> add(ds, delim.val), calls |-> inv]
                 ELSE [pc |-> "dl_loop", res |-> NoRes, input |-> b.source,
                       elems |-> <<b.val>> \o es, delims |-> add(ds, delim.val),
                       calls |-> inv]

\* Fault variant: a delimiter with no element after it ends the list normally.
delimited_list_iter_mut_trailing(ep, dp, s, in, es, ds) ==
    LET delim == parse(dp, s, in)
    IN  IF ~is_ok(delim)
        THEN [pc |-> "done", res |-> from_val(in, <<es, ds>>), input |-> in,
              elems |-> es, delims |-> ds, calls |-> <<Invoke(dp, in)>>]
        ELSE LET b == branch(parse(ep, s, delim.source))
                 inv == <<Invoke(dp, in), Invoke(ep, delim.source)>>
             IN  IF b.cf = "Break"
                 THEN [pc |-> "done",
                       res |-> from_val(delim.source, <<es, add(ds, delim.val)>>),
                       input |-> delim.source, elems |-> es,
                       delims |-> add(ds, delim.val), calls |-> inv]
                 ELSE [pc |-> "dl_loop", res |-> NoRes, input |-> b.source,
                       elems |-> add(es, b.val), delims |-> add(ds, delim.val),
                       calls |-> inv]

delimited_list_iter(ep, dp, s, in, es, ds) ==
    LET delim == parse(dp, s, in)
    IN  IF ~is_ok(delim)
        THEN [pc |-> "done", res |-> from_val(in, <<es, ds>>), input |-> in,
              elems |-> es, delims |-> ds, calls |-> <<Invoke(dp, in)>>]
        ELSE LET b == branch(parse(ep, s, delim.source))
                 inv == <<Invoke(dp, in), Invoke(ep, delim.source)>>
             IN  IF b.cf = "Break"
                 THEN [pc |-> "done", res |-> from_residual(b.residual),
                       input |-> delim.source, elems |-> es,
                       delims |-> add(ds, delim.val), calls |-> inv]
                 ELSE [pc |-> "dl_loop", res |-> NoRes, input |-> b.source,
                       elems |-> add(es, b.val), delims |-> add(ds, delim.val),
                       calls |-> inv]

DelimitedListIter ==
    /\ pc = "dl_loop"
    /\ Len(calls) < MaxCalls
    /\ LET it == delimited_list_iter(parser, delim_parser, src, input, elems, delims)
       IN  /\ pc' = it.pc
           /\ res' = it.res
           /\ input' = it.input
           /\ elems' = it.elems
           /\ delims' = it.delims
           /\ calls' = calls \o it.calls
    /\ UNCHANGED <<op, src, self, start, parser, delim_parser, bounds, err, iter_err>>

\* ---- iter (lib.rs:404-415) and the pulls of the adapter it creates
CallIter ==
    /\ pc = "idle"
    /\ \E s \in Inputs(IterAlphabet) : \E p \in IterParsers : \E c \in 0..Len(s) :
          /\ pc' = "iter"
          /\ op' = "iter"
          /\ src' = s
          /\ parser' = p
          /\ start' = c
          /\ input' = c
          /\ elems' = <<>>
          /\ iter_err' = FALSE
          /\ UNCHANGED <<self, delim_parser, bounds, delims, err, calls, res>>

Pull ==
    /\ pc = "iter"
    /\ ~iter_err
    /\ Len(calls) < MaxCalls
    /\ LET n == ParsIter_next(parser, src, input)
       IN  /\ calls' = Append(calls, Invoke(parser, input))
           /\ input' = n.source
           /\ iter_err' = n.err
           /\ elems' = IF n.yield = NoneVal THEN elems ELSE Append(elems, n.yield[2])
    /\ UNCHANGED <<pc, op, src, self, start, parser, delim_parser, bounds, delims, err, res>>

\* ---- parse_str (json.rs:17-27)
CallParseStr ==
    /\ pc = "idle"
    /\ \E s \in Inputs(StrAlphabet) :
          LET b == branch(literal(<<Quote>>, s, 0))
          IN  /\ op' = "parse_str"
              /\ src' = s
              /\ parser' = "str_char"
              /\ IF b.cf = "Break"
                 THEN /\ pc' = "done"
                      /\ res' = from_residual(b.residual)
                      /\ UNCHANGED input
                 ELSE /\ pc' = "str_iter"
                      /\ input' = b.source
                      /\ UNCHANGED res
              /\ UNCHANGED <<self, start, delim_parser, bounds, elems, delims, err,
                             iter_err, calls>>

\* One pull of collect(); the pull that ends the sequence is followed by the
\* closing literal (json.rs:25-26).
ParseStrPull ==
    /\ pc = "str_iter"
    /\ LET n == ParsIter_next(parser, src, input)
       IN  /\ calls' = Append(calls, Invoke(parser, input))
           /\ input' = n.source
           /\ iter_err' = n.err
           /\ IF n.yield = NoneVal
              THEN LET b == branch(literal(<<Quote>>, src, n.source))
                   IN  /\ pc' = "done"
                       /\ res' = IF b.cf = "Break"
                                 THEN from_residual(b.residual)
                                 ELSE from_val(b.source, elems)
                       /\ UNCHANGED elems
              ELSE /\ elems' = Append(elems, n.yield[2])
                   /\ UNCHANGED <<pc, res>>
    /\ UNCHANGED <<op, src, self, start, parser, delim_parser, bounds, delims, err>>

Next ==
    \/ CallAnd
    \/ CallOr
    \/ CallOptional
    \/ CallParseNum
    \/ CallParseRepeating
    \/ RepeatIter
    \/ CallRepeating
    \/ RepeatingIter
    \/ CallDelimitedList
    \/ DelimitedListIter
    \/ CallIter
    \/ Pull
    \/ CallParseStr
    \/ ParseStrPull

Spec == Init /\ [][Next]_vars


\* ------------------------------------------------------------ properties
\* The position after k successive successful applications of p from c.
RECURSIVE PosAfter(_, _, _, _)
PosAfter(p, s, c, k) ==
    IF k = 0 THEN c ELSE parse(p, s, PosAfter(p, s, c, k - 1)).source

\* delimited_list: where the k-th element starts and ends when every element
\* and delimiter before it parsed.
RECURSIVE ElemStart(_, _, _, _)
ElemStart(ep, dp, s, k) ==
    IF k = 1 THEN 0
    ELSE parse(dp, s, parse(ep, s, ElemStart(ep, dp, s, k - 1)).source).source

ElemEnd(ep, dp, s, k) == parse(ep, s, ElemStart(ep, dp, s, k)).source

Finished == pc \in {"done", "panic"}

\* C1: r.and(next): when r is Ok(v1) at p, next is invoked exactly once, from
\* p, and the outcome is Ok((v1, v2)) at next's position when next succeeds
\* and next's failure (tag, error, failure position) when it does not; when r
\* is Err or Incomplete the outcome is r unchanged and next is not invoked.
C1_AndSequencing ==
    (op = "and" /\ pc = "done") =>
        IF self.typ = "Ok"
        THEN LET n == parse(parser, src, self.source)
             IN  /\ calls = <<Invoke(parser, self.source)>>
                 /\ IF n.typ = "Ok"
                    THEN /\ res.typ = "Ok"
                         /\ res.val = <<self.val, n.val>>
                         /\ res.source = n.source
                    ELSE SameResult(res, n)
        ELSE /\ calls = <<>>
             /\ SameResult(res, self)

\* C1's case: r is Incomplete somewhere inside the buffer and comes back as it is.
C1_Witness ==
    /\ op = "and" /\ pc = "done"
    /\ self.typ = "Incomplete" /\ self.source > 0
    /\ res.typ = "Incomplete" /\ res.source = self.source
    /\ calls = <<>>

\* C2: r.or(start, alt) is left-biased: an Ok r is returned unchanged and alt
\* is not invoked; an Err or Incomplete r makes alt run exactly once, from
\* start (not from r's failure position), and the outcome is alt's result.
C2_OrLeftBiased ==
    (op = "or" /\ pc = "done") =>
        IF self.typ = "Ok"
        THEN /\ SameResult(res, self)
             /\ calls = <<>>
        ELSE /\ calls = <<Invoke(parser, start)>>
             /\ SameResult(res, parse(parser, src, start))

\* C2's case: r is Incomplete at a position other than start, and alt succeeds from start.
C2_Witness ==
    /\ op = "or" /\ pc = "done"
    /\ self.typ = "Incomplete" /\ self.source # start
    /\ res.typ = "Ok"
    /\ calls = <<Invoke(parser, start)>>

\* The offset where the numeric literal of json.rs ends in s: an optional "-",
\* a run of digits, and a "." with a run of digits when both are there.
NumEnd(s) ==
    LET a == IF Len(s) > 0 /\ s[1] = "-" THEN 1 ELSE 0
        b == a + RunLen("is_ascii_digit", s, a)
        f == IF b < Len(s) /\ s[b + 1] = "." THEN RunLen("is_ascii_digit", s, b + 1) ELSE 0
    IN  IF f > 0 THEN b + 1 + f ELSE b

\* C3: r.optional(start) is always Ok: Ok(Some(v)) at r's position when r is
\* Ok(v), Ok(None) at start (never at r's failure position) when r is Err or
\* Incomplete; so in parse_num the "-" and the fraction, attempted and failed
\* (the fraction after consuming its "."), consume nothing.
C3_OptionalTotal ==
    /\ (op = "optional" /\ pc = "done") =>
          /\ res.typ = "Ok"
          /\ IF self.typ = "Ok"
             THEN res.val = Some(self.val) /\ res.source = self.source
             ELSE res.val = NoneVal /\ res.source = start
    /\ (op = "parse_num" /\ pc = "done" /\ res.typ = "Ok") =>
          /\ res.source = NumEnd(src)

\* C3's case: r failed (Err) away from start, and the outcome is None at start.
C3_Witness ==
    /\ op = "optional" /\ pc = "done"
    /\ self.typ = "Err" /\ self.source > start
    /\ res.typ = "Ok" /\ res.val = NoneVal /\ res.source = start

\* C4 (as claimed): parse_repeating applies the parser from successive
\* positions, at most up to the upper bound; a match count outside bounds
\* gives the terminating failure itself (tag, error, failure position, no
\* value), a count inside bounds gives Ok with the matches in arrival order
\* at the position after the last match.
C4_RepeatResult ==
    (op = "parse_repeating" /\ Finished) =>
        LET n == Len(elems)
        IN  /\ \A k \in 1..n :
                  LET r == parse(parser, src, PosAfter(parser, src, 0, k - 1))
                  IN  r.typ = "Ok" /\ r.val = elems[k]
            /\ input = PosAfter(parser, src, 0, n)
            /\ (n > 0 => is_under(n - 1, bounds.end))
            /\ IF ~contains(bounds, n)
               THEN /\ pc = "done"
                    /\ err # None
                    /\ res.typ \in {"Err", "Incomplete"}
                    /\ SameResult(res, parse(parser, src, input))
                    /\ res.val = NoVal
               ELSE /\ pc = "done"
                    /\ res.typ = "Ok"
                    /\ res.val = elems
                    /\ res.source = input

\* C5: when delimited_list succeeds, the elements and the delimiters are the
\* parsed ones in input order, there is one delimiter less than elements, and
\* the position is the one right after the last element, where the delimiter
\* attempt that ended the list failed (Err or Incomplete) and consumed nothing.
C5_ListSuccess ==
    (op = "delimited_list" /\ pc = "done" /\ res.typ = "Ok") =>
        LET n == Len(elems)
        IN  /\ res.val = <<elems, delims>>
            /\ n >= 1
            /\ Len(delims) = n - 1
            /\ \A k \in 1..n :
                  LET e == parse(parser, src, ElemStart(parser, delim_parser, src, k))
                  IN  e.typ = "Ok" /\ e.val = elems[k]
            /\ \A k \in 1..(n - 1) :
                  LET d == parse(delim_parser, src, ElemEnd(parser, delim_parser, src, k))
                  IN  d.typ = "Ok" /\ d.val = delims[k]
            /\ res.source = ElemEnd(parser, delim_parser, src, n)
            /\ ~is_ok(parse(delim_parser, src, res.source))
            /\ calls[Len(calls)] = Invoke(delim_parser, res.source)

\* C5's case: "1,2x": two elements, one delimiter, the list ends before "x".
C5_Witness ==
    /\ op = "delimited_list" /\ pc = "done"
    /\ parser = "digit" /\ delim_parser = "comma"
    /\ src = <<"1", ",", "2", "x">>
    /\ res.typ = "Ok"
    /\ res.val = << <<"1", "2">>, << <<",">> >> >>
    /\ res.source = 3

\* C6: in delimited_list every element is mandatory: when the first element,
\* or the element attempted right after a parsed delimiter, fails, the list
\* fails with that element's failure (tag, error, failure position, at or
\* after the end of the delimiter), nothing more is attempted and the
\* accumulated elements and delimiters are not returned; a list that
\* succeeds has an element after each of its delimiters.
C6_ElementsMandatory ==
    (op = "delimited_list" /\ pc = "done") =>
        LET n  == Len(elems)
            at == ElemStart(parser, delim_parser, src, n + 1)
            e  == parse(parser, src, at)
        IN  IF res.typ = "Ok"
            THEN /\ Len(delims) = n - 1
                 /\ \A k \in 1..n :
                       is_ok(parse(parser, src, ElemStart(parser, delim_parser, src, k)))
                 /\ ~is_ok(parse(delim_parser, src, ElemEnd(parser, delim_parser, src, n)))
            ELSE /\ ~is_ok(e)
                 /\ SameResult(res, e)
                 /\ res.val = NoVal
                 /\ res.source >= at
                 /\ Len(delims) = n
                 /\ calls[Len(calls)] = Invoke(parser, at)
                 /\ n > 0 =>
                       /\ is_ok(parse(delim_parser, src,
                                      ElemEnd(parser, delim_parser, src, n)))
                       /\ calls[Len(calls) - 1] =
                             Invoke(delim_parser, ElemEnd(parser, delim_parser, src, n))

\* C6's case: "1,,2": the second "," is where a digit had to be.
C6_Witness ==
    /\ op = "delimited_list" /\ pc = "done"
    /\ parser = "digit" /\ delim_parser = "comma"
    /\ src = <<"1", ",", ",", "2">>
    /\ res.typ = "Err" /\ res.err = ExpectedToken("digit") /\ res.source = 2
    /\ elems = <<"1">>

\* C7: after any sequence of pulls of the adapter made by iter(parser,
\* cursor): every pull applied the parser once, at the cursor value of that
\* moment; the yielded values are the successive parses' values and the cursor
\* is the position after the last of them; a failing pull yields nothing, is
\* recorded, is the last pull, and leaves the cursor where it was.
C7_IterCursor ==
    (op = "iter") =>
        LET n == Len(elems)
        IN  /\ input = PosAfter(parser, src, start, n)
            /\ \A k \in 1..n :
                  LET r == parse(parser, src, PosAfter(parser, src, start, k - 1))
                  IN  r.typ = "Ok" /\ r.val = elems[k]
            /\ Len(calls) = n + (IF iter_err THEN 1 ELSE 0)
            /\ \A k \in 1..Len(calls) :
                  calls[k] = Invoke(parser, PosAfter(parser, src, start, k - 1))
            /\ iter_err => ~is_ok(parse(parser, src, input))

\* C7's case: after a yielded element, a pull whose parse failed past the
\* cursor (an escape cut short by the end of the buffer).
C7_Witness ==
    /\ op = "iter" /\ iter_err
    /\ Len(elems) >= 1
    /\ input > start
    /\ parse(parser, src, input).source > input

\* The offset (1-based) of the first quote at or after i that no backslash
\* escapes, 0 when there is none.
RECURSIVE ClosingQuote(_, _)
ClosingQuote(s, i) ==
    IF i > Len(s) THEN 0
    ELSE IF s[i] = Quote THEN i
    ELSE IF s[i] = Backslash /\ i < Len(s) THEN ClosingQuote(s, i + 2)
    ELSE ClosingQuote(s, i + 1)

Unterminated(s) == Len(s) > 0 /\ s[1] = Quote /\ ClosingQuote(s, 2) = 0

\* C8 (as claimed): parse_str of an input that opens a string and never
\* closes it fails with UnexpectedEndOfFile.
C8_UnterminatedIsEndOfFile ==
    (op = "parse_str" /\ pc = "done" /\ Unterminated(src)) =>
        /\ res.typ = "Err"
        /\ res.err = UnexpectedEndOfFile

\* C8 (amended): parse_str of an input that opens a string and never closes
\* it fails with the closing literal's own failure, ExpectedLiteral("\""), at
\* the exhausted input; the failure of the iterated escaped-or-plain
\* character parser is recorded by the adapter and not surfaced.
C8_UnterminatedIsExpectedLiteral ==
    (op = "parse_str" /\ pc = "done" /\ Unterminated(src)) =>
        /\ res.typ = "Err"
        /\ res.err = ExpectedLiteral(<<Quote>>)
        /\ res.source = Len(src)
        /\ iter_err
        /\ calls[Len(calls)] = Invoke("str_char", Len(src))

\* C8's case: an opened string that ends in a lone backslash.
C8_Witness ==
    /\ op = "parse_str" /\ pc = "done"
    /\ src = <<Quote, "a", Backslash>>
    /\ res.typ = "Err" /\ res.source = 3
    /\ elems = <<"a", Backslash>>

\* The parser invocations a call that returns can make.  The parsers are
\* pure and never move the position backwards, and the loops decide on the
\* position alone (and on the match count up to a finite upper bound): an
\* iteration that continues from the position it started at repeats for
\* ever.  A call that returns therefore consumes a character in every
\* iteration but its last.
Budget ==
    CASE op = "parse_repeating" ->
            IF bounds.end.kind = "Unbounded" THEN Len(src) + 1 ELSE bounds.end.n + 1
      [] op = "repeating" -> Len(src) + 1
      [] op = "delimited_list" -> 2 * Len(src) + 3
      [] OTHER -> MaxCalls

\* C9 (as claimed): every call of repeating, parse_repeating and
\* delimited_list returns after finitely many parser invocations, also for
\* parsers that succeed without consuming input.
C9_ReturnsWithinBudget ==
    (op \in {"parse_repeating", "repeating", "delimited_list"}) =>
        Len(calls) <= Budget

\* C10 (as claimed): when the loop of parse_repeating ends with a match count
\* outside bounds, a terminating failure has been recorded, and the call
\* returns instead of panicking.
C10_ErrorPresent ==
    (op = "parse_repeating" /\ Finished /\ ~contains(bounds, Len(elems))) =>
        /\ err # None
        /\ pc = "done"

====
